---- MODULE Spec2Model ----
(***************************************************************************)
(* A model of the B+ tree of wspeirs/rust-bplus: the BPlusTree of          *)
(* src/lib.rs and its copy in src/main.rs, driven by the same sequence of  *)
(* insert calls.                                                           *)
(***************************************************************************)
EXTENDS Integers, Sequences, FiniteSets, TLC

\* ---------------------------------------------------------------- bounds
\* Keys are 1..MaxKey (K: Ord + Copy), at most MaxInserts calls of insert.
MaxKey == 2
MaxInserts == 6

\* The literal of `leaf.keys.len() >= 4` (lib.rs:80): the leaf capacity.
maxKeys == 4

Keys == 1..MaxKey
\* V is an opaque Copy payload.
Values == {"a", "b"}

\* ---------------------------------------------------------------- types
\* Option<T>
None == [tag |-> "None"]
Some(x) == [tag |-> "Some", val |-> x]

\* Rc<T>: the value with its strong and weak reference counts.
Rc_new(node) == [strong |-> 1, weak |-> 0, node |-> node]

\* Rc::get_mut: Some(&mut T) only when no other Rc or Weak points to it.
Rc_get_mut(rc) == IF rc.strong = 1 /\ rc.weak = 0 THEN Some(rc.node) ELSE None

\* BPlusNode::Leaf(BPlusLeaf { parent, keys, values })
BPlusLeaf(parent, keys, values) ==
    [variant |-> "Leaf", parent |-> parent, keys |-> keys, values |-> values]

\* BPlusNode::Interior(BPlusInterior { parent, keys, children })
BPlusInterior(parent, keys, children) ==
    [variant |-> "Interior", parent |-> parent, keys |-> keys, children |-> children]

\* BPlusTree { root }
BPlusTree(root) == [root |-> root]

\* A constructor that allocates the empty root leaf eagerly.
new_eager == [root |-> Some(Rc_new(BPlusLeaf(None, <<>>, <<>>)))]

\* BPlusTree::new
new == BPlusTree(None)

\* ---------------------------------------------------------------- state
VARIABLES
    tree,       \* the BPlusTree of lib.rs
    panic,      \* "none", or the panic the last lib.rs insert ended with
    locals,     \* left, right, inner as the last lib.rs insert computed them
    mainTree,   \* the BPlusTree of main.rs
    mainPanic,  \* "none", or the panic the last main.rs insert ended with
    history     \* the (key, value) pairs passed to insert so far, in order

vars == <<tree, panic, locals, mainTree, mainPanic, history>>

\* ---------------------------------------------------------------- lib.rs
\* `for i in lo..hi { dst.keys.push(leaf.keys[i]); dst.values.push(leaf.values[i]); }`
\* (Rust indexes from 0, a TLA+ sequence from 1).
RECURSIVE CopyRange(_, _, _, _)
CopyRange(leaf, dst, i, hi) ==
    IF i >= hi THEN dst
    ELSE CopyRange(leaf,
                   [dst EXCEPT !.keys = Append(@, leaf.keys[i + 1]),
                               !.values = Append(@, leaf.values[i + 1])],
                   i + 1, hi)

\* The body of `if leaf.keys.len() >= 4 { ... }`: left, right and inner, which
\* go out of scope at the closing brace.
SplitLocals(leaf) ==
    LET half == Len(leaf.keys) \div 2
        left == CopyRange(leaf, BPlusLeaf(None, <<>>, <<>>), 0, half)
        right == CopyRange(leaf, BPlusLeaf(None, <<>>, <<>>), half, Len(leaf.keys))
    IN  Some([left |-> left,
              right |-> right,
              inner |-> BPlusInterior(leaf.parent, <<>>,
                                      <<Rc_new(left), Rc_new(right)>>)])

\* `if self.root.is_none() { self.root = Some(Rc::new(Leaf { None, [], [] })) }`
Bootstrap(self) ==
    IF self.root.tag = "None"
    THEN BPlusTree(Some(Rc_new(BPlusLeaf(None, <<>>, <<>>))))
    ELSE self

\* insert with the split half-wired: an overflowing leaf is replaced by its
\* right half before the push, and the left half is lost.
insert_keep_right(self, key, value) ==
    LET self1 == Bootstrap(self)
        rc == self1.root.val
        leaf == rc.node
        base == IF Len(leaf.keys) >= maxKeys
                THEN SplitLocals(leaf).val.right ELSE leaf
        pushed == [base EXCEPT !.keys = Append(@, key),
                               !.values = Append(@, value)]
    IN  [self |-> BPlusTree(Some([rc EXCEPT !.node = pushed])),
         panic |-> "none",
         locals |-> IF Len(leaf.keys) >= maxKeys THEN SplitLocals(leaf) ELSE None]

\* insert with the split wired into the root (`self.root = Some(Rc::new(inner))`)
\* while the Interior branch still panics.
insert_wired(self, key, value) ==
    LET self1 == Bootstrap(self)
        rc == self1.root.val
        leaf == rc.node
    IN  IF leaf.variant = "Interior"
        THEN [self |-> self1, panic |-> "This also can't happen yet",
              locals |-> None]
        ELSE IF Len(leaf.keys) >= maxKeys
        THEN [self |-> BPlusTree(Some(Rc_new(SplitLocals(leaf).val.inner))),
              panic |-> "none", locals |-> SplitLocals(leaf)]
        ELSE [self |-> BPlusTree(Some([rc EXCEPT !.node =
                          [leaf EXCEPT !.keys = Append(@, key),
                                       !.values = Append(@, value)]])),
              panic |-> "none", locals |-> None]

\* insert with map semantics: the value of a key already in the leaf is
\* overwritten in place and nothing is pushed.
insert_overwrite(self, key, value) ==
    LET self1 == Bootstrap(self)
        rc == self1.root.val
        leaf == rc.node
        at == {j \in 1..Len(leaf.keys) : leaf.keys[j] = key}
        stored == IF at = {}
                  THEN [leaf EXCEPT !.keys = Append(@, key),
                                    !.values = Append(@, value)]
                  ELSE [leaf EXCEPT !.values =
                           [j \in 1..Len(@) |-> IF j \in at THEN value ELSE @[j]]]
    IN  [self |-> BPlusTree(Some([rc EXCEPT !.node = stored])),
         panic |-> "none",
         locals |-> IF Len(leaf.keys) >= maxKeys THEN SplitLocals(leaf) ELSE None]

\* insert that pushes the key at the back and the value at the front.
insert_values_front(self, key, value) ==
    LET self1 == Bootstrap(self)
        rc == self1.root.val
        leaf == rc.node
        pushed == [leaf EXCEPT !.keys = Append(@, key),
                               !.values = <<value>> \o @]
    IN  [self |-> BPlusTree(Some([rc EXCEPT !.node = pushed])),
         panic |-> "none",
         locals |-> IF Len(leaf.keys) >= maxKeys THEN SplitLocals(leaf) ELSE None]

\* BPlusTree::insert of lib.rs: the tree, the panic and the dropped locals.
insert(self, key, value) ==
    LET self1 == Bootstrap(self)
        rc == self1.root.val
        got == Rc_get_mut(rc)
    IN  IF got.tag = "None"
        THEN [self |-> self1, panic |-> "Someone else is borrowing our root",
              locals |-> None]
        ELSE IF got.val.variant = "Interior"
        THEN [self |-> self1, panic |-> "This also can't happen yet",
              locals |-> None]
        ELSE LET leaf == got.val
                 pushed == [leaf EXCEPT !.keys = Append(@, key),
                                        !.values = Append(@, value)]
             IN  [self |-> BPlusTree(Some([rc EXCEPT !.node = pushed])),
                  panic |-> "none",
                  locals |-> IF Len(leaf.keys) >= maxKeys
                             THEN SplitLocals(leaf) ELSE None]

\* ---------------------------------------------------------------- main.rs
\* A copy of insert that places the pair at its sorted position in the leaf.
main_insert_sorted(self, key, value) ==
    LET self1 == Bootstrap(self)
        node_rc == self1.root.val
        leaf == node_rc.node
        pos == Cardinality({j \in 1..Len(leaf.keys) : leaf.keys[j] <= key})
        placed == [leaf EXCEPT
                     !.keys = SubSeq(@, 1, pos) \o <<key>> \o SubSeq(@, pos + 1, Len(@)),
                     !.values = SubSeq(@, 1, pos) \o <<value>> \o SubSeq(@, pos + 1, Len(@))]
    IN  [self |-> BPlusTree(Some([node_rc EXCEPT !.node = placed])),
         panic |-> "none"]

\* BPlusTree::insert of main.rs: the tree and the panic.
main_insert(self, key, value) ==
    LET self1 == Bootstrap(self)
    IN  IF self1.root.tag = "None"
        THEN [self |-> self1, panic |-> "This can't happen"]
        ELSE LET node_rc == self1.root.val
                 got == Rc_get_mut(node_rc)
             IN  IF got.tag = "None"
                 THEN [self |-> self1, panic |-> "unwrap on None"]
                 ELSE IF got.val.variant = "Interior"
                 THEN [self |-> self1, panic |-> "This also can't happen yet"]
                 ELSE LET leaf == got.val
                          pushed == [leaf EXCEPT !.keys = Append(@, key),
                                                 !.values = Append(@, value)]
                      IN  [self |-> BPlusTree(Some([node_rc EXCEPT !.node = pushed])),
                           panic |-> "none"]

\* ---------------------------------------------------------------- behaviour
Init ==
    /\ tree = new
    /\ panic = "none"
    /\ locals = None
    /\ mainTree = new
    /\ mainPanic = "none"
    /\ history = <<>>

\* One call insert(&key, &value) on each copy; a panicked program calls no more.
Insert(key, value) ==
    /\ Len(history) < MaxInserts
    /\ panic = "none"
    /\ mainPanic = "none"
    /\ LET r == insert(tree, key, value)
       IN  /\ tree' = r.self
           /\ panic' = r.panic
           /\ locals' = r.locals
    /\ LET m == main_insert(mainTree, key, value)
       IN  /\ mainTree' = m.self
           /\ mainPanic' = m.panic
    /\ history' = Append(history, <<key, value>>)

Next == \E key \in Keys, value \in Values : Insert(key, value)

Spec == Init /\ [][Next]_vars

\* Distinct ascending keys 1, 2, 3, ... into a fresh tree.
InsertAscending(value) == Insert(Len(history) + 1, value)

NextAscending == \E value \in Values : InsertAscending(value)

SpecAscending == Init /\ [][NextAscending]_vars

\* ---------------------------------------------------------------- tree walks
\* The leaves owned, directly or through Interior nodes, by a node.
RECURSIVE Leaves(_)
Leaves(node) ==
    IF node.variant = "Leaf" THEN {node}
    ELSE UNION {Leaves(node.children[c].node) : c \in 1..Len(node.children)}

\* The descent of insert step 2 and of lookup: at an Interior node the child
\* index is the number of separators <= key (ties route right).
RECURSIVE ReachedLeaf(_, _)
ReachedLeaf(node, key) ==
    IF node.variant = "Leaf" THEN node
    ELSE LET i == Cardinality({j \in 1..Len(node.keys) : node.keys[j] <= key})
         IN  ReachedLeaf(node.children[i + 1].node, key)

\* The leaves of the lib.rs tree (none while the tree is empty).
TreeLeaves == IF tree.root.tag = "None" THEN {} ELSE Leaves(tree.root.val.node)

\* The keys passed to insert so far, in call order.
HistoryKeys == [i \in 1..Len(history) |-> history[i][1]]

\* The root leaf's keys and values before a step (empty while the tree is empty
\* or the root is no leaf).
RootKeys ==
    IF tree.root.tag = "Some" /\ tree.root.val.node.variant = "Leaf"
    THEN tree.root.val.node.keys ELSE <<>>

RootValues ==
    IF tree.root.tag = "Some" /\ tree.root.val.node.variant = "Leaf"
    THEN tree.root.val.node.values ELSE <<>>

\* ---------------------------------------------------------------- claims

\* C1 (size bound): whenever insert has returned, every leaf of the tree holds
\* at most maxKeys = 4 keys.
SizeBound == \A leaf \in TreeLeaves : Len(leaf.keys) <= maxKeys

\* C2 (sortedness): after any sequence of inserts, the keys of every leaf are
\* in non-decreasing order.
Sortedness ==
    \A leaf \in TreeLeaves :
        \A i, j \in 1..Len(leaf.keys) : i < j => leaf.keys[i] <= leaf.keys[j]

\* C3 (round trip): every (key, value) pair passed to insert is stored, value
\* unchanged, in the leaf that the key-comparison descent from the root reaches
\* for that key.
RoundTrip ==
    \A h \in 1..Len(history) :
        /\ tree.root.tag = "Some"
        /\ LET leaf == ReachedLeaf(tree.root.val.node, history[h][1])
           IN  \E j \in 1..Len(leaf.keys) :
                   /\ j <= Len(leaf.values)
                   /\ leaf.keys[j] = history[h][1]
                   /\ leaf.values[j] = history[h][2]

\* C3 witness: more than maxKeys pairs were inserted, two of them with the same
\* key and different values, and all are stored.
RoundTripWitness ==
    /\ Len(history) > maxKeys
    /\ \E g, h \in 1..Len(history) :
           g < h /\ history[g][1] = history[h][1] /\ history[g][2] # history[h][2]
    /\ RoundTrip

\* C4 (root growth): after inserting the keys 1,2,3,4 the root is the single
\* leaf [1,2,3,4]; after 1,2,3,4,5 the root is an Interior node with keys [4]
\* over the leaves [1,2,3] and [4,5].
RootGrowth ==
    /\ HistoryKeys = <<1, 2, 3, 4>> =>
           /\ tree.root.tag = "Some"
           /\ tree.root.val.node.variant = "Leaf"
           /\ tree.root.val.node.keys = <<1, 2, 3, 4>>
    /\ HistoryKeys = <<1, 2, 3, 4, 5>> =>
           /\ tree.root.tag = "Some"
           /\ tree.root.val.node.variant = "Interior"
           /\ tree.root.val.node.keys = <<4>>
           /\ Len(tree.root.val.node.children) = 2
           /\ tree.root.val.node.children[1].node.variant = "Leaf"
           /\ tree.root.val.node.children[1].node.keys = <<1, 2, 3>>
           /\ tree.root.val.node.children[2].node.variant = "Leaf"
           /\ tree.root.val.node.children[2].node.keys = <<4, 5>>

\* C5 (insert is total): no call of insert panics, in either copy.
NoPanic == panic = "none" /\ mainPanic = "none"

\* C5 witness: an insert into a root leaf that already held more than maxKeys
\* keys has returned.
NoPanicWitness ==
    /\ Len(history) > maxKeys + 1
    /\ locals.tag = "Some"
    /\ Len(locals.val.left.keys) + Len(locals.val.right.keys) > maxKeys
    /\ NoPanic

\* C6 (parallel leaf): every leaf has as many values as keys, and the pair
\* (keys[i], values[i]) at every index i is a pair that was passed to insert.
LeafParallel ==
    \A leaf \in TreeLeaves :
        /\ Len(leaf.keys) = Len(leaf.values)
        /\ \A i \in 1..Len(leaf.keys) :
               \E h \in 1..Len(history) : history[h] = <<leaf.keys[i], leaf.values[i]>>

\* C6 witness: a leaf holds two entries that differ in key and in value.
LeafParallelWitness ==
    \E leaf \in TreeLeaves :
        /\ Len(leaf.keys) = Len(leaf.values)
        /\ \E i, j \in 1..Len(leaf.keys) :
               leaf.keys[i] # leaf.keys[j] /\ leaf.values[i] # leaf.values[j]

\* C7 (empty-tree bootstrap): the root is None exactly when no insert has been
\* performed; the first insert makes the root a parentless leaf holding exactly
\* the inserted pair; a root that is Some stays Some.
EmptyTreeBootstrap ==
    /\ [](tree.root.tag = "None" <=> Len(history) = 0)
    /\ [][tree.root.tag = "None" =>
            \E key \in Keys, value \in Values :
                /\ history' = <<<<key, value>>>>
                /\ tree'.root = Some(Rc_new(BPlusLeaf(None, <<key>>, <<value>>)))]_vars
    /\ [][tree.root.tag = "Some" => tree'.root.tag = "Some"]_vars

\* C7 witness: the first insert has returned and the root is a parentless leaf
\* with one entry.
EmptyTreeBootstrapWitness ==
    /\ Len(history) = 1
    /\ tree.root.tag = "Some"
    /\ tree.root.val.node.variant = "Leaf"
    /\ tree.root.val.node.parent = None
    /\ Len(tree.root.val.node.keys) = 1

\* C8 (leaf split partition): whenever insert has split a leaf, the split is
\* over the leaf's maxKeys + 1 entries including the new key, at the median
\* m = ceil((maxKeys + 1) / 2): left holds entries [0, m), right [m, maxKeys + 1).
LeafSplitPartition ==
    locals.tag = "Some" =>
        LET m == (maxKeys + 2) \div 2
        IN  /\ Len(RootKeys) = maxKeys + 1
            /\ locals.val.left.keys = SubSeq(RootKeys, 1, m)
            /\ locals.val.left.values = SubSeq(RootValues, 1, m)
            /\ locals.val.right.keys = SubSeq(RootKeys, m + 1, maxKeys + 1)
            /\ locals.val.right.values = SubSeq(RootValues, m + 1, maxKeys + 1)

\* C9 (append only): every insert(k, v) leaves the root a parentless leaf whose
\* keys are the old keys followed by k and whose values are the old values
\* followed by v, whether or not k was present and whether or not a split was
\* computed.
AppendOnly ==
    [][\A key \in Keys, value \in Values :
           history' = Append(history, <<key, value>>) =>
               /\ tree'.root.tag = "Some"
               /\ tree'.root.val.node.variant = "Leaf"
               /\ tree'.root.val.node.parent = None
               /\ tree'.root.val.node.keys = Append(RootKeys, key)
               /\ tree'.root.val.node.values = Append(RootValues, value)]_vars

\* C9 witness: a split was computed by an insert of a key already present, and
\* the root leaf holds more than maxKeys keys.
AppendOnlyWitness ==
    /\ locals.tag = "Some"
    /\ Len(RootKeys) > maxKeys
    /\ \E i \in 1..(Len(RootKeys) - 1) : RootKeys[i] = RootKeys[Len(RootKeys)]

\* C10 (the copies agree): after every call the tree of lib.rs and the tree of
\* main.rs are in the same state, and one has panicked exactly when the other has.
CopiesAgree ==
    /\ tree = mainTree
    /\ (panic = "none") <=> (mainPanic = "none")

\* C10 witness: lib.rs computed a split that main.rs does not compute, with
\* keys out of order in the leaf, and the trees are equal.
CopiesAgreeWitness ==
    /\ locals.tag = "Some"
    /\ tree = mainTree
    /\ \E i \in 1..(Len(RootKeys) - 1) : RootKeys[i] > RootKeys[i + 1]

====
